---- MODULE Spec2Model ----
(***************************************************************************)
(* Model of SwitchXAuthProvider (src/react/auth.tsx): the React state of   *)
(* the provider, the two localStorage entries, the SwitchX WebApp bridge,  *)
(* the profile fetches in flight and the messages posted to the parent     *)
(* window.  One action per handler; the effects that a committed render    *)
(* schedules are the action RunEffects, which runs before anything else.   *)
(*                                                                         *)
(* Spec        one provider from its first render on, clock standing still *)
(* LiveSpec    Spec with weak fairness of the effects and of the requests  *)
(* SpecRestart an embedded provider over page reloads and passing time     *)
(* SpecCore    a SwitchXCore client (src/core/index.ts) used on its own    *)
(* SpecHook    the data hook useUser, standing for the nine data hooks     *)
(***************************************************************************)
EXTENDS Integers, Sequences, FiniteSets, Bags, TLC

\* ------------------------------------------------------------------ bounds
MaxFetches == 2          \* profile requests outstanding at the same time
MaxCalls == 2            \* requests one SwitchXCore client sends
MaxRequests == 2         \* requests of one data hook outstanding at the same time
MaxTicks == 1            \* times the clock is advanced

\* --------------------------------------------------------------- constants
CACHE_DURATION == 86400000

\* ------------------------------------------------------------------ values
NULL == "null"                       \* null / undefined / missing string
Tokens == {"tA", "tB"}
UserIds == {"U", "V"}
Communities == {"c1"}

NoUser == [absent |-> TRUE]          \* user === null
UserInfo(u) == [userId |-> u]        \* the record getUser(u) resolves to
Profiles == {UserInfo(u) : u \in UserIds}

Absent == [kind |-> "absent"]        \* localStorage.getItem(...) === null
Malformed == [kind |-> "malformed"]  \* an entry JSON.parse throws on
AuthEntry(t, u, c) == [kind |-> "json", token |-> t, userId |-> u, communityId |-> c]
UserEntry(d, ts) == [kind |-> "json", data |-> d, timestamp |-> ts]

NoAuthData == [absent |-> TRUE]      \* getAuthToken() returned null
AuthData(t, u) == [token |-> t, userId |-> u]
AuthResults == {NoAuthData, AuthData("tA", NULL), AuthData(NULL, "U"),
                AuthData("tA", "U"), AuthData("tB", "U"), AuthData("tB", "V")}
CommunityResults == Communities \cup {NULL}   \* communityInfo?.id

NoFetch == [absent |-> TRUE]
Fetch(t, u, s) == [token |-> t, userId |-> u, signal |-> s, aborted |-> FALSE]

StartTime == CACHE_DURATION + 1

\* core/index.ts: the universal client
CoreCommunities == {"c1", "c2"}
NoClient == [absent |-> TRUE]        \* no SwitchXCore instance yet
SwitchXCore(t) == [authToken |-> t]  \* the fields of an instance
NoCall == [method |-> "none", communityId |-> NULL, thrown |-> NULL]

\* react hooks: useUser stands for the data hooks, which share one pattern
NoData == [absent |-> TRUE]                    \* data === null
Result(c, u) == [client |-> c, userId |-> u]   \* what client c answers for u

\* what an earlier session can have left in localStorage
StoredAuths == {Absent, Malformed, AuthEntry("tA", NULL, "c1"),
                AuthEntry("tA", "U", NULL), AuthEntry("tA", "U", "c1")}
StoredUsers == {Absent, Malformed, UserEntry(NoUser, StartTime),
                UserEntry(UserInfo("V"), StartTime),
                UserEntry(UserInfo("U"), 0), UserEntry(UserInfo("U"), 1)}

VARIABLES
    token, userId, user, isAuthenticated, loading, userLoading, communityId,
    isEmbedded,      \* isEmbedded of the context value of the last render
    storedAuth,      \* localStorage 'switchx_auth'
    storedUser,      \* localStorage 'switchx_user'
    webApp,          \* window.SwitchX?.WebApp is reachable
    notifyParent,    \* prop notifyParent
    hasParent,       \* window.parent !== window
    fetches,         \* bag of the getUser requests in flight
    effectDeps,      \* dependency values the fetch effect last ran with
    mounted,         \* the mount effect (initAuth) has run
    now,             \* Date.now()
    posted,          \* isAuthenticated of each message posted by the last step
    lastBridge,      \* last bridge answer holding a token and a userId
    cleared,         \* clearAuth has been called
    signalled,       \* an authenticated message was posted for the current session
    last,            \* the last step: handler, fetch completed, results
    client,          \* the SwitchXCore instance the caller holds
    defaultCommunityId,  \* second argument of the constructor call that built it
    requests,        \* requests the instance has sent, in order
    call,            \* the last call on SwitchXCore: method, argument, error thrown
    ticks,           \* number of clock advances so far
    lastNotify,      \* argument of the last notifyParentAuth call, <<>> before any
    hookClient,      \* useUser: token of the client useAuth() gave the last render
    hookUserId,      \* useUser: the userId argument of the last render
    hookData,        \* useUser: data
    hookLoading,     \* useUser: loading
    hookError,       \* useUser: error
    hookRequests,    \* useUser: the getUser requests in flight
    hookLatest       \* useUser: what became of the request of the last fetchData call

vars == <<token, userId, user, isAuthenticated, loading, userLoading, communityId,
          isEmbedded,
          storedAuth, storedUser, webApp, notifyParent, hasParent, fetches,
          effectDeps, mounted, now, posted, lastBridge, cleared, signalled, last,
          client, defaultCommunityId, requests, call, ticks, lastNotify,
          hookClient, hookUserId, hookData, hookLoading, hookError, hookRequests,
          hookLatest>>

authVars == <<token, userId, user, isAuthenticated, loading, userLoading, communityId,
              isEmbedded,
              storedAuth, storedUser, webApp, notifyParent, hasParent, fetches,
              effectDeps, mounted, now, posted, lastBridge, cleared, signalled, last,
              lastNotify>>
coreVars == <<client, defaultCommunityId, requests, call>>
hookVars == <<hookClient, hookUserId, hookData, hookLoading, hookError, hookRequests,
              hookLatest>>

Step(op) == [op |-> op, fetch |-> NoFetch, ok |-> FALSE, ret |-> FALSE, clearData |-> FALSE,
             answer |-> NoAuthData, expired |-> FALSE, provisional |-> NULL]

\* the dependency array of the fetch effect (fetchUserInfo changes with token, userId)
Deps == <<isAuthenticated, token, userId, user>>
EffectsPending == Deps # effectDeps

Init ==
    /\ token = NULL /\ userId = NULL /\ user = NoUser
    /\ isAuthenticated = FALSE /\ loading = TRUE /\ userLoading = FALSE
    /\ communityId = NULL
    /\ storedAuth \in StoredAuths
    /\ storedUser \in StoredUsers
    /\ webApp \in BOOLEAN
    /\ isEmbedded = webApp
    /\ notifyParent \in BOOLEAN
    /\ hasParent \in BOOLEAN
    /\ fetches = EmptyBag
    /\ effectDeps = <<FALSE, NULL, NULL, NoUser>>
    /\ mounted = FALSE
    /\ now = StartTime
    /\ posted = <<>>
    /\ lastBridge = NoAuthData
    /\ cleared = FALSE
    /\ signalled = FALSE
    /\ last = Step("init")
    /\ client = NoClient /\ defaultCommunityId = NULL
    /\ requests = <<>> /\ call = NoCall
    /\ ticks = 0
    /\ lastNotify = <<>>
    /\ hookClient = NULL /\ hookUserId = NULL
    /\ hookData = NoData /\ hookLoading = FALSE /\ hookError = NULL
    /\ hookRequests = {} /\ hookLatest = "none"

\* ----------------------------------------------------------------- helpers
InFlight == BagCardinality(fetches)

\* mutant: the userId of the bridge answer is not looked at
HasTokenOnly(authData) ==
    /\ authData # NoAuthData
    /\ authData.token # NULL

\* mutant: the token of the bridge answer is not looked at
HasUserIdOnly(authData) ==
    /\ authData # NoAuthData
    /\ authData.userId # NULL

\* mutant: any answer other than null is adopted
HasAnswer(authData) == authData # NoAuthData

\* mutant: one of token and userId is enough
HasTokenOrUserId(authData) ==
    /\ authData # NoAuthData
    /\ (authData.token # NULL \/ authData.userId # NULL)

\* authData?.token && authData?.userId
HasTokenAndUserId(authData) ==
    /\ authData # NoAuthData
    /\ authData.token # NULL
    /\ authData.userId # NULL

\* mutant: the abort signal is never looked at
NeverAborted(f) == FALSE

\* signal?.aborted
SignalAborted(f) == f.signal /\ f.aborted

\* mutant: the age of the entry is not looked at
NeverExpired(timestamp) == FALSE

\* mutant: an entry exactly CACHE_DURATION old counts as expired
ExpiredAtLimit(timestamp) == now - timestamp >= CACHE_DURATION

\* Date.now() - timestamp > CACHE_DURATION
IsExpired(timestamp) == now - timestamp > CACHE_DURATION

\* the messages notifyParentAuth(authenticated) posts to window.parent
notifyParentAuth(authenticated) ==
    IF ~notifyParent THEN <<>>
    ELSE IF hasParent THEN <<authenticated>>
    ELSE <<>>

\* JSON.stringify({token, userId, communityId: communityInfo?.id})
StoreAuth(authData, cid) == AuthEntry(authData.token, authData.userId, cid)

\* abortController.abort() of the effect's cleanup
AbortAll(fs) ==
    LET Abort(f) == IF f.signal THEN [f EXCEPT !.aborted = TRUE] ELSE f
        after == {Abort(f) : f \in BagToSet(fs)}
        Sum(g) == CopiesIn(g, fs)
                    + (IF g.signal /\ g.aborted
                       THEN CopiesIn([g EXCEPT !.aborted = FALSE], fs) ELSE 0)
    IN  [g \in after |-> Sum(g)]

Idle == mounted /\ ~EffectsPending

\* what getAuthToken() and getCommunityInfo?.()?.id can answer; nothing is asked
\* when window.SwitchX?.WebApp is missing
BridgeAnswers == IF webApp THEN AuthResults ELSE {NoAuthData}
BridgeCommunities == IF webApp THEN CommunityResults ELSE {NULL}

\* mutant: the cache value is set after the bridge value
CacheSetLast(probe, bridgeValue, cacheHit, cacheValue, current) ==
    IF cacheHit THEN cacheValue
    ELSE IF probe THEN bridgeValue
    ELSE current

\* setX(cache value) followed by setX(bridge value) in one batch: the last call wins
LastSet(probe, bridgeValue, cacheHit, cacheValue, current) ==
    IF probe THEN bridgeValue
    ELSE IF cacheHit THEN cacheValue
    ELSE current

\* mutant: notify as soon as the cached token and userId were adopted
NotifyOnCachedAuth(cacheHit, adoptUser) == cacheHit

\* shouldNotifyParent at the end of initAuth
ShouldNotifyParent(cacheHit, adoptUser) == adoptUser

\* mutant: the effect does not look at user
NeedsFetchIgnoringUser == isAuthenticated /\ token # NULL /\ userId # NULL

\* the guard of the fetch effect
NeedsFetch == isAuthenticated /\ token # NULL /\ userId # NULL /\ user = NoUser

\* token, userId and a profile are all in the snapshot
Resolved == isAuthenticated /\ token # NULL /\ userId # NULL /\ user # NoUser

\* bookkeeping of the authenticated messages posted so far
RecordSignal == signalled' = IF TRUE \in {posted'[i] : i \in DOMAIN posted'} THEN TRUE
                          ELSE IF ~Resolved' THEN FALSE
                          ELSE signalled

\* the provider renders again when one of its state values changed; the context
\* value then reads window.SwitchX?.WebApp anew
State == <<token, userId, user, isAuthenticated, loading, userLoading, communityId>>
Render == isEmbedded' = IF State' # State THEN webApp' ELSE isEmbedded

\* ----------------------------------------------------------------- actions
\* mutant: no try/catch around the cache read, a parse error ends the effect
initAuthThrowingOnMalformed ==
    /\ ~mounted
    /\ \E authData \in BridgeAnswers, cid \in BridgeCommunities :
        LET cacheHit == /\ storedAuth.kind = "json"
                        /\ storedAuth.token # NULL
                        /\ storedAuth.userId # NULL
            userRead == cacheHit /\ storedUser.kind = "json"
            expired == userRead /\ IsExpired(storedUser.timestamp)
            adoptUser == userRead /\ ~expired /\ storedUser.data # NoUser
            thrown == storedAuth = Malformed \/ (cacheHit /\ storedUser = Malformed)
            probe == ~thrown /\ webApp /\ HasTokenAndUserId(authData)
        IN  /\ token' = LastSet(probe, authData.token, cacheHit, storedAuth.token, token)
            /\ userId' = LastSet(probe, authData.userId, cacheHit, storedAuth.userId, userId)
            /\ isAuthenticated' = LastSet(probe, TRUE, cacheHit, TRUE, isAuthenticated)
            /\ communityId' = LastSet(probe /\ cid # NULL, cid,
                                      cacheHit /\ storedAuth.communityId # NULL,
                                      storedAuth.communityId, communityId)
            /\ user' = IF adoptUser THEN storedUser.data ELSE user
            /\ storedUser' = IF expired THEN Absent ELSE storedUser
            /\ storedAuth' = IF probe THEN StoreAuth(authData, cid) ELSE storedAuth
            /\ lastBridge' = IF probe THEN authData ELSE lastBridge
            /\ posted' = IF ShouldNotifyParent(cacheHit, adoptUser)
                         THEN notifyParentAuth(TRUE) ELSE <<>>
            /\ lastNotify' = IF ShouldNotifyParent(cacheHit, adoptUser)
                             THEN <<TRUE>> ELSE lastNotify
            /\ last' = [Step("initAuth") EXCEPT !.answer = authData, !.expired = expired,
                            !.provisional = IF cacheHit THEN storedAuth.userId ELSE NULL]
    /\ loading' = (storedAuth = Malformed \/ storedUser = Malformed)
    /\ mounted' = TRUE
    /\ UNCHANGED <<userLoading, webApp, notifyParent, hasParent, fetches,
                   effectDeps, now, cleared>>

\* the mount effect: cache read, then bridge probe
initAuth ==
    /\ ~mounted
    /\ \E authData \in BridgeAnswers, cid \in BridgeCommunities :
        LET cacheHit == /\ storedAuth.kind = "json"
                        /\ storedAuth.token # NULL
                        /\ storedAuth.userId # NULL
            userRead == cacheHit /\ storedUser.kind = "json"
            expired == userRead /\ IsExpired(storedUser.timestamp)
            adoptUser == userRead /\ ~expired /\ storedUser.data # NoUser
            probe == webApp /\ HasTokenAndUserId(authData)
        IN  /\ token' = LastSet(probe, authData.token, cacheHit, storedAuth.token, token)
            /\ userId' = LastSet(probe, authData.userId, cacheHit, storedAuth.userId, userId)
            /\ isAuthenticated' = LastSet(probe, TRUE, cacheHit, TRUE, isAuthenticated)
            /\ communityId' = LastSet(probe /\ cid # NULL, cid,
                                      cacheHit /\ storedAuth.communityId # NULL,
                                      storedAuth.communityId, communityId)
            /\ user' = IF adoptUser THEN storedUser.data ELSE user
            /\ storedUser' = IF expired THEN Absent ELSE storedUser
            /\ storedAuth' = IF probe THEN StoreAuth(authData, cid) ELSE storedAuth
            /\ lastBridge' = IF probe THEN authData ELSE lastBridge
            /\ posted' = IF ShouldNotifyParent(cacheHit, adoptUser)
                         THEN notifyParentAuth(TRUE) ELSE <<>>
            /\ lastNotify' = IF ShouldNotifyParent(cacheHit, adoptUser)
                             THEN <<TRUE>> ELSE lastNotify
            /\ last' = [Step("initAuth") EXCEPT !.answer = authData, !.expired = expired,
                            !.provisional = IF cacheHit THEN storedAuth.userId ELSE NULL]
    /\ loading' = FALSE
    /\ mounted' = TRUE
    /\ UNCHANGED <<userLoading, webApp, notifyParent, hasParent, fetches,
                   effectDeps, now, cleared>>

\* the switchAuthReady listener
handleSwitchBridgeAuth ==
    /\ Idle
    /\ InFlight < MaxFetches
    /\ \E authData \in BridgeAnswers, cid \in BridgeCommunities :
        /\ IF webApp /\ HasTokenAndUserId(authData)
           THEN /\ token' = authData.token
                /\ userId' = authData.userId
                /\ isAuthenticated' = TRUE
                /\ loading' = FALSE
                /\ communityId' = IF cid # NULL THEN cid ELSE communityId
                /\ storedAuth' = StoreAuth(authData, cid)
                /\ lastBridge' = authData
           ELSE UNCHANGED <<token, userId, isAuthenticated, loading, communityId,
                            storedAuth, lastBridge>>
        /\ last' = [Step("switchAuthReady") EXCEPT !.answer = authData]
    /\ posted' = <<>>
    /\ UNCHANGED <<user, userLoading, storedUser, webApp, notifyParent, hasParent,
                   fetches, effectDeps, mounted, now, cleared>>
    /\ UNCHANGED lastNotify

\* mutant: setLoading(false) is not in a finally block
refreshAuthFromParentWithoutFinally ==
    /\ Idle
    /\ InFlight < MaxFetches
    /\ \E authData \in BridgeAnswers, cid \in BridgeCommunities :
        IF webApp /\ HasTokenAndUserId(authData)
        THEN /\ token' = authData.token
             /\ userId' = authData.userId
             /\ isAuthenticated' = TRUE
             /\ communityId' = IF cid # NULL THEN cid ELSE communityId
             /\ storedAuth' = StoreAuth(authData, cid)
             /\ lastBridge' = authData
             /\ loading' = FALSE
             /\ last' = [Step("refreshAuthFromParent") EXCEPT !.ret = TRUE,
                                                              !.answer = authData]
        ELSE /\ loading' = IF webApp THEN TRUE ELSE loading
             /\ last' = [Step("refreshAuthFromParent") EXCEPT !.answer = authData]
             /\ UNCHANGED <<token, userId, isAuthenticated, communityId,
                            storedAuth, lastBridge>>
    /\ posted' = <<>>
    /\ UNCHANGED <<user, userLoading, storedUser, webApp, notifyParent, hasParent,
                   fetches, effectDeps, mounted, now, cleared>>
    /\ UNCHANGED lastNotify

refreshAuthFromParent ==
    /\ Idle
    /\ InFlight < MaxFetches
    /\ \E authData \in BridgeAnswers, cid \in BridgeCommunities :
        IF webApp /\ HasTokenAndUserId(authData)
        THEN /\ token' = authData.token
             /\ userId' = authData.userId
             /\ isAuthenticated' = TRUE
             /\ communityId' = IF cid # NULL THEN cid ELSE communityId
             /\ storedAuth' = StoreAuth(authData, cid)
             /\ lastBridge' = authData
             /\ loading' = FALSE
             /\ last' = [Step("refreshAuthFromParent") EXCEPT !.ret = TRUE,
                                                              !.answer = authData]
        ELSE /\ loading' = IF webApp THEN FALSE ELSE loading
             /\ last' = [Step("refreshAuthFromParent") EXCEPT !.answer = authData]
             /\ UNCHANGED <<token, userId, isAuthenticated, communityId,
                            storedAuth, lastBridge>>
    /\ posted' = <<>>
    /\ UNCHANGED <<user, userLoading, storedUser, webApp, notifyParent, hasParent,
                   fetches, effectDeps, mounted, now, cleared>>
    /\ UNCHANGED lastNotify

\* mutant: the switchx_user entry is left in localStorage
clearAuthKeepingUserEntry ==
    /\ Idle
    /\ token' = NULL
    /\ userId' = NULL
    /\ user' = NoUser
    /\ isAuthenticated' = FALSE
    /\ posted' = notifyParentAuth(FALSE)
    /\ lastNotify' = <<FALSE>>
    /\ storedAuth' = Absent
    /\ storedUser' = storedUser
    /\ cleared' = TRUE
    /\ last' = [Step("clearAuth") EXCEPT !.clearData = webApp]
    /\ UNCHANGED <<loading, userLoading, communityId, webApp, notifyParent,
                   hasParent, fetches, effectDeps, mounted, now, lastBridge>>

\* mutant: clearAuth returns at once when the session is not authenticated
clearAuthOnlyWhenAuthenticated ==
    /\ Idle
    /\ token' = NULL
    /\ userId' = NULL
    /\ user' = NoUser
    /\ isAuthenticated' = FALSE
    /\ posted' = IF isAuthenticated THEN notifyParentAuth(FALSE) ELSE <<>>
    /\ lastNotify' = IF isAuthenticated THEN <<FALSE>> ELSE lastNotify
    /\ storedAuth' = IF isAuthenticated THEN Absent ELSE storedAuth
    /\ storedUser' = IF isAuthenticated THEN Absent ELSE storedUser
    /\ cleared' = TRUE
    /\ last' = [Step("clearAuth") EXCEPT !.clearData = isAuthenticated /\ webApp]
    /\ UNCHANGED <<loading, userLoading, communityId, webApp, notifyParent,
                   hasParent, fetches, effectDeps, mounted, now, lastBridge>>

clearAuth ==
    /\ Idle
    /\ token' = NULL
    /\ userId' = NULL
    /\ user' = NoUser
    /\ isAuthenticated' = FALSE
    /\ posted' = notifyParentAuth(FALSE)
    /\ lastNotify' = <<FALSE>>
    /\ storedAuth' = Absent
    /\ storedUser' = Absent
    /\ cleared' = TRUE
    /\ last' = [Step("clearAuth") EXCEPT !.clearData = webApp]
    /\ UNCHANGED <<loading, userLoading, communityId, webApp, notifyParent,
                   hasParent, fetches, effectDeps, mounted, now, lastBridge>>

\* the context's refreshUserInfo: fetchUserInfo called without a signal
refreshUserInfo ==
    /\ Idle
    /\ InFlight < MaxFetches
    /\ IF token # NULL /\ userId # NULL
       THEN /\ userLoading' = TRUE
            /\ fetches' = fetches (+) SetToBag({Fetch(token, userId, FALSE)})
       ELSE UNCHANGED <<userLoading, fetches>>
    /\ posted' = <<>>
    /\ last' = Step("refreshUserInfo")
    /\ UNCHANGED <<token, userId, user, isAuthenticated, loading, communityId,
                   storedAuth, storedUser, webApp, notifyParent, hasParent,
                   effectDeps, mounted, now, lastBridge, cleared>>
    /\ UNCHANGED lastNotify

\* mutant: the catch block drops the profile and its cache entry
fetchUserInfoClearingOnError(f, ok) ==
    /\ Idle
    /\ BagIn(f, fetches)
    /\ fetches' = fetches (-) SetToBag({f})
    /\ IF SignalAborted(f)
       THEN /\ UNCHANGED <<user, storedUser, userLoading>>
            /\ posted' = <<>>
       ELSE /\ userLoading' = FALSE
            /\ IF ok
               THEN /\ user' = UserInfo(f.userId)
                    /\ storedUser' = UserEntry(UserInfo(f.userId), now)
                    /\ posted' = IF f.signal THEN notifyParentAuth(TRUE) ELSE <<>>
               ELSE /\ user' = NoUser
                    /\ storedUser' = Absent
                    /\ posted' = <<>>
    /\ lastNotify' = IF ~SignalAborted(f) /\ ok /\ f.signal THEN <<TRUE>> ELSE lastNotify
    /\ last' = [Step("fetchUserInfo") EXCEPT !.fetch = f, !.ok = ok]
    /\ UNCHANGED <<token, userId, isAuthenticated, loading, communityId, storedAuth,
                   webApp, notifyParent, hasParent, effectDeps, mounted, now,
                   lastBridge, cleared>>

\* client.getUser(userId) of request i settles; the rest of fetchUserInfo and
\* the effect's then-callback run
fetchUserInfo(f, ok) ==
    /\ Idle
    /\ BagIn(f, fetches)
    /\ fetches' = fetches (-) SetToBag({f})
    /\ IF SignalAborted(f)
       THEN /\ UNCHANGED <<user, storedUser, userLoading>>
            /\ posted' = <<>>
       ELSE /\ userLoading' = FALSE
            /\ IF ok
               THEN /\ user' = UserInfo(f.userId)
                    /\ storedUser' = UserEntry(UserInfo(f.userId), now)
                    /\ posted' = IF f.signal THEN notifyParentAuth(TRUE) ELSE <<>>
               ELSE /\ UNCHANGED <<user, storedUser>>
                    /\ posted' = <<>>
    /\ lastNotify' = IF ~SignalAborted(f) /\ ok /\ f.signal THEN <<TRUE>> ELSE lastNotify
    /\ last' = [Step("fetchUserInfo") EXCEPT !.fetch = f, !.ok = ok]
    /\ UNCHANGED <<token, userId, isAuthenticated, loading, communityId, storedAuth,
                   webApp, notifyParent, hasParent, effectDeps, mounted, now,
                   lastBridge, cleared>>

fetchDone == \E f \in BagToSet(fetches), ok \in BOOLEAN : fetchUserInfo(f, ok)

\* the effects of the committed render: cleanup of the fetch effect, the fetch
\* effect, the clear-user effect
RunEffects ==
    /\ mounted
    /\ EffectsPending
    /\ effectDeps' = Deps
    /\ IF NeedsFetch
       THEN /\ fetches' = AbortAll(fetches) (+) SetToBag({Fetch(token, userId, TRUE)})
            /\ userLoading' = TRUE
       ELSE /\ fetches' = AbortAll(fetches)
            /\ UNCHANGED userLoading
    /\ user' = IF ~isAuthenticated /\ user # NoUser THEN NoUser ELSE user
    /\ posted' = <<>>
    /\ last' = Step("effects")
    /\ UNCHANGED <<token, userId, isAuthenticated, loading, communityId, storedAuth,
                   storedUser, webApp, notifyParent, hasParent, mounted, now,
                   lastBridge, cleared>>
    /\ UNCHANGED lastNotify

\* the injected bridge script finishes loading
BridgeLoaded ==
    /\ Idle
    /\ ~webApp
    /\ webApp' = TRUE
    /\ posted' = <<>>
    /\ last' = Step("bridgeLoaded")
    /\ UNCHANGED <<token, userId, user, isAuthenticated, loading, userLoading,
                   communityId, storedAuth, storedUser, notifyParent, hasParent,
                   fetches, effectDeps, mounted, now, lastBridge, cleared>>
    /\ UNCHANGED lastNotify

Next ==
    \/ initAuth /\ RecordSignal /\ Render /\ UNCHANGED <<coreVars, ticks, hookVars>>
    \/ handleSwitchBridgeAuth /\ RecordSignal /\ Render /\ UNCHANGED <<coreVars, ticks, hookVars>>
    \/ refreshAuthFromParent /\ RecordSignal /\ Render /\ UNCHANGED <<coreVars, ticks, hookVars>>
    \/ clearAuth /\ RecordSignal /\ Render /\ UNCHANGED <<coreVars, ticks, hookVars>>
    \/ refreshUserInfo /\ RecordSignal /\ Render /\ UNCHANGED <<coreVars, ticks, hookVars>>
    \/ fetchDone /\ RecordSignal /\ Render /\ UNCHANGED <<coreVars, ticks, hookVars>>
    \/ RunEffects /\ RecordSignal /\ Render /\ UNCHANGED <<coreVars, ticks, hookVars>>
    \/ BridgeLoaded /\ RecordSignal /\ Render /\ UNCHANGED <<coreVars, ticks, hookVars>>

Spec == Init /\ [][Next]_vars

\* ------------------------------------------------------------- scheduling
\* React runs the mount effect and the effects of every committed render, and
\* every getUser request settles; consumers and the host need not do anything
MountStep == initAuth /\ RecordSignal /\ Render /\ UNCHANGED <<coreVars, ticks, hookVars>>
EffectsStep == RunEffects /\ RecordSignal /\ Render /\ UNCHANGED <<coreVars, ticks, hookVars>>
FetchStep == fetchDone /\ RecordSignal /\ Render /\ UNCHANGED <<coreVars, ticks, hookVars>>

LiveSpec ==
    /\ Spec
    /\ WF_vars(MountStep) /\ WF_vars(EffectsStep) /\ WF_vars(FetchStep)

\* ------------------------------------------------------------- data hooks
\* fetchData of a render whose client is c and whose userId argument is u
fetchData(c, u) ==
    IF c = NULL \/ u = NULL
    THEN /\ hookData' = NoData
         /\ hookLatest' = "none"
         /\ hookRequests' = {[r EXCEPT !.latest = FALSE] : r \in hookRequests}
         /\ UNCHANGED <<hookLoading, hookError>>
    ELSE /\ Cardinality(hookRequests) < MaxRequests
         /\ hookLoading' = TRUE
         /\ hookError' = NULL
         /\ hookRequests' = {[r EXCEPT !.latest = FALSE] : r \in hookRequests}
                                \cup {[client |-> c, userId |-> u, latest |-> TRUE]}
         /\ hookLatest' = "pending"
         /\ UNCHANGED hookData

\* the component renders with another client or userId; fetchData is a new
\* function and the effect calls it
Rerender(c, u) ==
    /\ <<c, u>> # <<hookClient, hookUserId>>
    /\ hookClient' = c /\ hookUserId' = u
    /\ fetchData(c, u)

\* the consumer calls refetch of the last render
refetch ==
    /\ fetchData(hookClient, hookUserId)
    /\ UNCHANGED <<hookClient, hookUserId>>

\* client.getUser(userId) of request r settles and the rest of its fetchData runs
settle(r, ok) ==
    /\ r \in hookRequests
    /\ hookRequests' = hookRequests \ {r}
    /\ IF ok
       THEN /\ hookData' = Result(r.client, r.userId)
            /\ UNCHANGED hookError
       ELSE /\ hookError' = "Failed to fetch user"
            /\ hookData' = NoData
    /\ hookLoading' = FALSE
    /\ hookLatest' = IF ~r.latest THEN hookLatest
                      ELSE IF ok THEN "ok" ELSE "failed"
    /\ UNCHANGED <<hookClient, hookUserId>>

NextHook ==
    \/ (\E c \in Tokens \cup {NULL}, u \in UserIds \cup {NULL} : Rerender(c, u))
          /\ UNCHANGED <<authVars, coreVars, ticks>>
    \/ refetch /\ UNCHANGED <<authVars, coreVars, ticks>>
    \/ (\E r \in hookRequests, ok \in BOOLEAN : settle(r, ok))
          /\ UNCHANGED <<authVars, coreVars, ticks>>

\* the hook after its first render without a client
InitHook ==
    /\ Init
    /\ storedAuth = Absent /\ storedUser = Absent
    /\ webApp = FALSE /\ notifyParent = FALSE /\ hasParent = FALSE

SpecHook == InitHook /\ [][NextHook]_vars

\* ------------------------------------------------ restarts and passing time
TickSteps == {CACHE_DURATION}

\* Date.now() moves on by d milliseconds
Tick(d) ==
    /\ ticks < MaxTicks
    /\ ticks' = ticks + 1
    /\ now' = now + d
    /\ posted' = <<>>
    /\ last' = Step("tick")
    /\ UNCHANGED <<token, userId, user, isAuthenticated, loading, userLoading,
                   communityId, isEmbedded, storedAuth, storedUser, webApp,
                   notifyParent, hasParent, fetches, effectDeps, mounted,
                   lastBridge, cleared, signalled>>
    /\ UNCHANGED lastNotify

\* the page is loaded again: a new provider starts from the useState initial
\* values, localStorage is kept, requests of the old page are gone
Restart ==
    /\ mounted
    /\ token' = NULL /\ userId' = NULL /\ user' = NoUser
    /\ isAuthenticated' = FALSE /\ loading' = TRUE /\ userLoading' = FALSE
    /\ communityId' = NULL
    /\ isEmbedded' = webApp
    /\ fetches' = EmptyBag
    /\ effectDeps' = <<FALSE, NULL, NULL, NoUser>>
    /\ mounted' = FALSE
    /\ posted' = <<>>
    /\ lastBridge' = NoAuthData
    /\ cleared' = FALSE
    /\ signalled' = FALSE
    /\ last' = Step("restart")
    /\ lastNotify' = <<>>
    /\ UNCHANGED <<storedAuth, storedUser, webApp, notifyParent, hasParent, now,
                   ticks>>

\* an embedded provider over several page loads: the identity comes from the
\* bridge, at the probe or with a switchAuthReady event
NextRestart ==
    \/ initAuth /\ RecordSignal /\ Render /\ UNCHANGED <<coreVars, ticks, hookVars>>
    \/ handleSwitchBridgeAuth /\ RecordSignal /\ Render /\ UNCHANGED <<coreVars, ticks, hookVars>>
    \/ clearAuth /\ RecordSignal /\ Render /\ UNCHANGED <<coreVars, ticks, hookVars>>
    \/ refreshUserInfo /\ RecordSignal /\ Render /\ UNCHANGED <<coreVars, ticks, hookVars>>
    \/ fetchDone /\ RecordSignal /\ Render /\ UNCHANGED <<coreVars, ticks, hookVars>>
    \/ RunEffects /\ RecordSignal /\ Render /\ UNCHANGED <<coreVars, ticks, hookVars>>
    \/ (\E d \in TickSteps : Tick(d)) /\ UNCHANGED <<coreVars, hookVars>>
    \/ Restart /\ UNCHANGED <<coreVars, hookVars>>

\* a browser whose localStorage holds nothing of the provider yet; the host
\* page provides the bridge
InitRestart ==
    /\ Init
    /\ storedAuth = Absent /\ storedUser = Absent
    /\ webApp /\ notifyParent /\ hasParent

SpecRestart == InitRestart /\ [][NextRestart]_vars

\* ------------------------------------------------------- SwitchXCore client
\* new SwitchXCore(t, c): the constructor declares one parameter, a second
\* argument is not read
constructor(t, c) ==
    /\ IF t = NULL
       THEN /\ call' = [method |-> "constructor", communityId |-> c,
                        thrown |-> "Token is required"]
            /\ UNCHANGED <<client, defaultCommunityId, requests>>
       ELSE /\ client' = SwitchXCore(t)
            /\ defaultCommunityId' = c
            /\ requests' = <<>>
            /\ call' = [method |-> "constructor", communityId |-> c, thrown |-> NULL]

\* the private fetch helper: one request carrying the token, ok is response.ok
fetch(method, url, c, ok) ==
    /\ Len(requests) < MaxCalls
    /\ requests' = Append(requests, [url |-> url, communityId |-> c,
                                     Authorization |-> client.authToken])
    /\ call' = [method |-> method, communityId |-> c,
                thrown |-> IF ok THEN NULL ELSE "HTTP error"]

\* a read of a community: throws before any request when communityId is falsy
CommunityRead(method, url, message, c, ok) ==
    /\ client # NoClient
    /\ IF c = NULL
       THEN /\ call' = [method |-> method, communityId |-> c, thrown |-> message]
            /\ UNCHANGED requests
       ELSE fetch(method, url, c, ok)
    /\ UNCHANGED <<client, defaultCommunityId>>

getCommunity(c, ok) ==
    CommunityRead("getCommunity", "community", "Community ID is required.", c, ok)
getMembers(c, ok) ==
    CommunityRead("getMembers", "community/users", "Community ID is required", c, ok)
getChannels(c, ok) ==
    CommunityRead("getChannels", "community/channel/all", "Community ID is required", c, ok)

CommunityArgs == CoreCommunities \cup {NULL}    \* NULL: called without the argument

NextCore ==
    \/ (\E t \in Tokens \cup {NULL}, c \in CommunityArgs : constructor(t, c))
          /\ UNCHANGED <<authVars, ticks, hookVars>>
    \/ (\E c \in CommunityArgs, ok \in BOOLEAN : getCommunity(c, ok))
          /\ UNCHANGED <<authVars, ticks, hookVars>>
    \/ (\E c \in CommunityArgs, ok \in BOOLEAN : getMembers(c, ok))
          /\ UNCHANGED <<authVars, ticks, hookVars>>
    \/ (\E c \in CommunityArgs, ok \in BOOLEAN : getChannels(c, ok))
          /\ UNCHANGED <<authVars, ticks, hookVars>>

\* the client used on its own: the provider never mounts
InitCore ==
    /\ Init
    /\ storedAuth = Absent /\ storedUser = Absent
    /\ webApp = FALSE /\ notifyParent = FALSE /\ hasParent = FALSE

SpecCore == InitCore /\ [][NextCore]_vars

TypeOK ==
    /\ token \in Tokens \cup {NULL}
    /\ userId \in UserIds \cup {NULL}
    /\ InFlight <= MaxFetches
    /\ client \in {NoClient} \cup {SwitchXCore(t) : t \in Tokens}
    /\ Len(requests) <= MaxCalls
    /\ ticks \in 0..MaxTicks
    /\ lastNotify \in {<<>>, <<TRUE>>, <<FALSE>>}
    /\ hookClient \in Tokens \cup {NULL}
    /\ hookUserId \in UserIds \cup {NULL}
    /\ Cardinality(hookRequests) <= MaxRequests
    /\ hookLoading \in BOOLEAN

\* ------------------------------------------------------------------ claims
Pair(f) == <<f.token, f.userId>>
AuthPosted == TRUE \in {posted[i] : i \in DOMAIN posted}

\* C1: in every reachable state isAuthenticated is true iff token and userId
\* are both non-null.
C1_IsAuthenticatedIffTokenAndUserId ==
    isAuthenticated <=> (token # NULL /\ userId # NULL)

C1_Witness ==
    /\ cleared
    /\ last.op = "switchAuthReady"
    /\ isAuthenticated /\ token # NULL /\ userId # NULL

\* C2: whenever user is non-null, user.userId equals the snapshot's userId.
C2_ProfileMatchesUserId ==
    user # NoUser => user.userId = userId

\* C3: with no clearAuth, after the initial resolution token and userId are the
\* most recent bridge answer that held both a token and a userId if there was
\* one, otherwise the persisted switchx_auth pair, otherwise null.
C3_BridgeWinsOverCache ==
    (mounted /\ ~cleared) =>
        IF lastBridge # NoAuthData
        THEN token = lastBridge.token /\ userId = lastBridge.userId
        ELSE IF storedAuth.kind = "json" /\ storedAuth.token # NULL /\ storedAuth.userId # NULL
        THEN token = storedAuth.token /\ userId = storedAuth.userId
        ELSE token = NULL /\ userId = NULL

C3_Witness ==
    /\ mounted /\ ~cleared
    /\ last.op = "switchAuthReady"
    /\ lastBridge = AuthData("tB", "V")
    /\ token = "tB" /\ userId = "V"
    /\ storedAuth = AuthEntry("tB", "V", NULL)

C5_StaleFetchDiscarded ==
    [][ (/\ last'.op = "fetchUserInfo"
         /\ ~cleared
         /\ Pair(last'.fetch) # <<token, userId>>) =>
            /\ user' = user
            /\ storedUser' = storedUser
      ]_vars

\* C6: at most one fetch that can still update the snapshot is in flight per
\* (token, userId) pair, and none for a pair other than the current one.
C6_OneLiveFetchPerPair ==
    Idle =>
        \A f \in BagToSet(fetches) :
            ~SignalAborted(f) =>
                /\ Pair(f) = <<token, userId>>
                /\ CopiesIn(Fetch(f.token, f.userId, TRUE), fetches)
                     + CopiesIn(Fetch(f.token, f.userId, FALSE), fetches) = 1

\* C7 as stated: clearAuth empties token, userId, user, isAuthenticated and both
\* entries, calls clearData iff the bridge is reachable, and posts exactly one
\* message with isAuthenticated = false.
C7_ClearAuthAlwaysPosts ==
    (last.op = "clearAuth") =>
        /\ token = NULL /\ userId = NULL /\ user = NoUser /\ ~isAuthenticated
        /\ storedAuth = Absent /\ storedUser = Absent
        /\ last.clearData = webApp
        /\ posted = <<FALSE>>

\* C7 amended: as above, but the message is posted exactly once when
\* notifyParent is enabled and the window has a parent, and not at all otherwise.
C7_ClearAuth ==
    (last.op = "clearAuth") =>
        /\ token = NULL /\ userId = NULL /\ user = NoUser /\ ~isAuthenticated
        /\ storedAuth = Absent /\ storedUser = Absent
        /\ last.clearData = webApp
        /\ posted = IF notifyParent /\ hasParent THEN <<FALSE>> ELSE <<>>

C7_Witness ==
    /\ last.op = "clearAuth"
    /\ last.clearData
    /\ posted = <<FALSE>>
    /\ InFlight > 0
    /\ effectDeps[1] /\ effectDeps[4] # NoUser

\* C8: after clearAuth communityId is null and loading and userLoading are false.
C8_ClearAuthResetsEverything ==
    (last.op = "clearAuth") =>
        /\ communityId = NULL
        /\ ~loading
        /\ ~userLoading

\* C9: no step posts more than one authenticated message, and one is posted only
\* by the step that brings the snapshot from unresolved to resolved; a
\* switchAuthReady or refreshAuthFromParent answering the pair already held and
\* signalled posts nothing.
C9_OneSignalPerResolution ==
    [][ /\ Len(posted') <= 1
        /\ (posted' = <<TRUE>>) => (~Resolved /\ Resolved')
        /\ (/\ signalled
            /\ last'.op \in {"switchAuthReady", "refreshAuthFromParent", "effects"}
            /\ token' = token /\ userId' = userId) => posted' = <<>>
      ]_vars

C9_Witness ==
    /\ last.op = "refreshAuthFromParent"
    /\ last.ret
    /\ signalled
    /\ Resolved
    /\ ~EffectsPending
    /\ posted = <<>>

C11_ExpiredProfileNotAdopted ==
    [][ /\ (/\ last'.op = "initAuth"
            /\ storedUser.kind = "json"
            /\ now - storedUser.timestamp > CACHE_DURATION) =>
               /\ user' = NoUser
               /\ isAuthenticated' => EffectsPending'
        /\ (/\ last'.op = "initAuth"
            /\ storedUser.kind = "json"
            /\ now - storedUser.timestamp <= CACHE_DURATION
            /\ storedUser.data # NoUser
            /\ storedAuth.kind = "json"
            /\ storedAuth.token # NULL /\ storedAuth.userId # NULL) =>
               /\ user' = storedUser.data
               /\ fetches' = EmptyBag
        /\ (/\ last.op = "initAuth"
            /\ last'.op = "effects") =>
               IF user = NoUser /\ isAuthenticated
               THEN fetches' = SetToBag({Fetch(token, userId, TRUE)})
               ELSE fetches' = EmptyBag
      ]_vars

C11_Witness ==
    /\ last.op = "initAuth"
    /\ last.expired
    /\ storedUser = Absent
    /\ isAuthenticated
    /\ user = NoUser
    /\ EffectsPending

C13_MalformedCacheIsAMiss ==
    [][ (/\ last'.op = "initAuth"
         /\ (storedAuth = Malformed \/ storedUser = Malformed)) =>
            LET answered == /\ webApp
                            /\ last'.answer # NoAuthData
                            /\ last'.answer.token # NULL
                            /\ last'.answer.userId # NULL
                cached == /\ storedAuth # Malformed
                          /\ storedAuth.kind = "json"
                          /\ storedAuth.token # NULL
                          /\ storedAuth.userId # NULL
            IN  /\ ~loading'
                /\ mounted'
                /\ user' = NoUser
                /\ posted' = <<>>
                /\ IF answered
                   THEN /\ token' = last'.answer.token
                        /\ userId' = last'.answer.userId
                        /\ storedAuth'.kind = "json"
                   ELSE IF cached
                   THEN token' = storedAuth.token /\ userId' = storedAuth.userId
                   ELSE token' = NULL /\ userId' = NULL /\ ~isAuthenticated'
      ]_vars

C13_Witness ==
    /\ last.op = "initAuth"
    /\ last.answer = AuthData("tB", "V")
    /\ storedUser = Malformed
    /\ token = "tB" /\ userId = "V"
    /\ communityId = NULL
    /\ ~loading

\* C14: a failed profile fetch changes neither user nor switchx_user, posts
\* nothing and starts no other fetch (no effect is due after it); user goes
\* from null to a profile only when some fetch succeeds.
C14_FailedFetchChangesNothing ==
    [][ /\ (last'.op = "fetchUserInfo" /\ ~last'.ok) =>
              /\ user' = user
              /\ storedUser' = storedUser
              /\ <<token', userId', isAuthenticated'>> = <<token, userId, isAuthenticated>>
              /\ posted' = <<>>
              /\ fetches' = fetches (-) SetToBag({last'.fetch})
              /\ ~EffectsPending'
        /\ (mounted /\ user = NoUser /\ user' # NoUser) =>
              (last'.op = "fetchUserInfo" /\ last'.ok)
      ]_vars

C14_Witness ==
    /\ last.op = "fetchUserInfo"
    /\ ~last.ok
    /\ last.fetch.signal /\ ~last.fetch.aborted
    /\ isAuthenticated
    /\ user = NoUser
    /\ fetches = EmptyBag
    /\ ~userLoading

\* C15: the snapshot's isEmbedded equals whether window.SwitchX.WebApp is
\* reachable, in every state.
C15_IsEmbeddedTracksBridge ==
    isEmbedded = webApp

\* C16: userLoading is true only while a profile fetch is in flight.
C16_UserLoadingOnlyWhileFetching ==
    userLoading => InFlight > 0

\* C17: loading is true until initAuth has run and false from then on, whatever
\* initAuth found; a refreshAuthFromParent call leaves it false when it returns.
C17_LoadingUntilResolved ==
    loading <=> ~mounted

C17_Witness ==
    /\ last.op = "refreshAuthFromParent"
    /\ ~last.ret
    /\ webApp
    /\ ~loading
    /\ ~isAuthenticated

\* C18: once token and userId are present, only clearAuth makes token, userId
\* or isAuthenticated absent/false again.
C18_OnlyClearAuthUnauthenticates ==
    [][ (/\ token # NULL /\ userId # NULL /\ isAuthenticated
         /\ (token' = NULL \/ userId' = NULL \/ ~isAuthenticated')) =>
            last'.op = "clearAuth"
      ]_vars

C18_Witness ==
    /\ last.op = "refreshAuthFromParent"
    /\ ~last.ret
    /\ webApp
    /\ last.answer = NoAuthData
    /\ isAuthenticated /\ token # NULL /\ userId # NULL
    /\ InFlight > 0

C20_DefaultCommunityServesReads ==
    (/\ client # NoClient /\ defaultCommunityId # NULL
     /\ call.method \in {"getCommunity", "getMembers", "getChannels"}
     /\ call.communityId = NULL) =>
        /\ call.thrown \notin {"Community ID is required.", "Community ID is required"}
        /\ Len(requests) > 0
        /\ requests[Len(requests)].communityId = defaultCommunityId

\* C21: at the initial resolution a persisted profile is adopted only if it is
\* present, not expired and its userId equals the provisional userId read from
\* switchx_auth; a profile of another userId is not adopted.
C21_CachedProfileAdoptedOnlyForSameUser ==
    [][ (last'.op = "initAuth" /\ user' # NoUser) =>
            /\ storedAuth.kind = "json" /\ storedUser.kind = "json"
            /\ now - storedUser.timestamp <= CACHE_DURATION
            /\ user' = storedUser.data
            /\ user'.userId = storedAuth.userId
      ]_vars


\* C22: when the initial resolution ends with a token and a userId and adopted
\* no valid cached profile (present, not expired, of the provisional userId),
\* the effects that follow issue exactly one profile fetch, for the final
\* (token, userId) pair.
C22_OneFetchAfterResolution ==
    [][ (/\ last.op = "initAuth" /\ last'.op = "effects"
         /\ token # NULL /\ userId # NULL
         /\ ~(user # NoUser /\ user.userId = last.provisional)) =>
            fetches' = SetToBag({Fetch(token, userId, TRUE)})
      ]_vars


\* C23: right after a bridge query that answered with a token and a userId
\* (init probe, switchAuthReady, refreshAuthFromParent) the snapshot holds the
\* bridge's token and userId, and switchx_auth holds the same token, userId and
\* communityId as the snapshot.
C23_SnapshotAndStoredAuthAgree ==
    (/\ last.op \in {"initAuth", "switchAuthReady", "refreshAuthFromParent"}
     /\ HasTokenAndUserId(last.answer)) =>
        /\ token = last.answer.token
        /\ userId = last.answer.userId
        /\ storedAuth = AuthEntry(token, userId, communityId)


\* C24: a switchAuthReady event or a refreshAuthFromParent call during which the
\* bridge is absent, or answers null or without a token or without a userId,
\* leaves token, userId, communityId, user, isAuthenticated and both persisted
\* entries unchanged.
C24_IncompleteAnswerChangesNothing ==
    [][ (/\ last'.op \in {"switchAuthReady", "refreshAuthFromParent"}
         /\ \/ ~webApp
            \/ last'.answer = NoAuthData
            \/ last'.answer.token = NULL
            \/ last'.answer.userId = NULL) =>
            /\ UNCHANGED <<token, userId, communityId, user, isAuthenticated>>
            /\ UNCHANGED <<storedAuth, storedUser>>
      ]_vars
C24_Witness ==
    /\ last.op = "refreshAuthFromParent" /\ ~last.ret
    /\ last.answer = AuthData("tA", NULL)
    /\ token = "tB" /\ userId = "U" /\ user = UserInfo("U") /\ isAuthenticated
    /\ storedAuth.kind = "json" /\ storedUser.kind = "json"


\* C25: a successful profile fetch that was not cancelled puts the fetched
\* profile into the snapshot and into switchx_user with the current time as
\* timestamp; a provider started again no more than CACHE_DURATION later, finding
\* that entry and a switchx_auth entry with token and userId, adopts that
\* profile at its resolution, and the effects that follow issue no fetch.
C25_FetchedProfileSurvivesRestart ==
    [][ /\ (/\ last'.op = "fetchUserInfo" /\ last'.ok
            /\ ~(last'.fetch.signal /\ last'.fetch.aborted)) =>
                /\ user' = UserInfo(last'.fetch.userId)
                /\ storedUser' = UserEntry(user', now)
        /\ (/\ last'.op = "initAuth"
            /\ storedUser.kind = "json" /\ storedUser.data # NoUser
            /\ storedAuth.kind = "json"
            /\ storedAuth.token # NULL /\ storedAuth.userId # NULL
            /\ now - storedUser.timestamp <= CACHE_DURATION) =>
                user' = storedUser.data
        /\ (last.op = "initAuth" /\ user # NoUser /\ last'.op = "effects") =>
                fetches' = EmptyBag
      ]_vars
C25_Witness ==
    /\ last.op = "initAuth"
    /\ storedUser.kind = "json" /\ user = storedUser.data
    /\ now - storedUser.timestamp = CACHE_DURATION
    /\ storedAuth.kind = "json" /\ storedAuth.userId = user.userId
    /\ fetches = EmptyBag


\* C26: once clearAuth has run, switchx_auth and switchx_user stay absent and user
\* stays null until a bridge query adopts an identity; a profile fetch that was
\* in flight when clearAuth ran changes neither when it completes.
C26_ClearedStaysCleared ==
    (cleared /\ ~isAuthenticated) =>
        /\ storedAuth = Absent /\ storedUser = Absent
        /\ user = NoUser


\* C28: in every snapshot a consumer can see, user is null whenever
\* isAuthenticated is false.
C28_NoProfileWithoutIdentity ==
    ~isAuthenticated => user = NoUser


\* C27: whenever the snapshot is authenticated with a profile, notifyParentAuth
\* has been or will be called with true for it, whichever path resolved the
\* profile (cache at init, the automatic fetch, refreshUserInfo).
C27_ResolvedIsEventuallySignalled ==
    (isAuthenticated /\ user # NoUser) ~> (lastNotify = <<TRUE>>)

\* the value onAuthChange was last invoked with: notifyParentAuth returns before
\* the callback when notifyParent is false
OnAuthChangeValue == IF notifyParent THEN lastNotify ELSE <<>>

\* C30: whenever isAuthenticated differs from the value onAuthChange last
\* received (false before any call), the callback is eventually invoked with
\* the new value.
C30_OnAuthChangeFollowsIsAuthenticated ==
    (isAuthenticated # (OnAuthChangeValue = <<TRUE>>))
        ~> (OnAuthChangeValue = <<isAuthenticated>>)


\* C29: once no request of the hook is in flight, data is the result of the
\* request issued for the hook's current client and parameter, or null if that
\* request failed or the client or the parameter is absent.
C29_HookDataIsForCurrentParameters ==
    hookRequests = {} =>
        hookData = IF hookClient = NULL \/ hookUserId = NULL THEN NoData
                   ELSE IF hookLatest = "ok" THEN Result(hookClient, hookUserId)
                   ELSE NoData

====
